---- MODULE Spec2Model ----
(***************************************************************************)
(* Model of project.py, the weather data analysis tool: the forecast       *)
(* fetch, the CSV round trip, the interactive menu of main(), and the      *)
(* pandas computations of calculate_rolling_stats and its neighbours.      *)
(*                                                                         *)
(* Numbers are exact: a temperature is an integer number of units, a mean  *)
(* is the fraction num/den, a standard deviation is the square root of the *)
(* fraction num/den.  Floating-point rounding is outside the model.        *)
(***************************************************************************)
EXTENDS Integers, Sequences, FiniteSets, TLC

VARIABLES
    pc,            \* position of main(): start, fetched, menu, done, exited, crashed; "call" in the function harness
    file,          \* weather_data.csv on disk
    weather_data,  \* the DataFrame main() holds (the df argument of every function)
    window,        \* the window calculate_rolling_stats is called with
    choice,        \* the last text read at "Enter your choice: "
    out,           \* the last message printed
    status,        \* response.status_code of the forecast request (0 before the request)
    err,           \* the exception raised by the last call, "none" if it returned
    ncalc          \* how many times menu choice 4 has run calculate_rolling_stats (counted up to MaxCalls)

vars == <<pc, file, weather_data, window, choice, out, status, err, ncalc>>

----------------------------------------------------------------------------
(* Bounds of the model *)

MaxLen == 4        \* most records in a table of any temperatures
MaxEntries == 3    \* most entries in a forecast response
MaxTemp == 2       \* temperatures are 0 .. MaxTemp
MaxWindow == 7     \* windows tried by the function harness are 1 .. MaxWindow
MaxBad == 1        \* most missing or non-numeric temperatures in a harness table
MaxCalls == 2      \* ncalc stops counting here
StartDay == 6      \* day of the first forecast record (day 1 is the Monday of ISO week 1)

(* Constants of the program *)

DefaultWindow == 3     \* calculate_rolling_stats(df, window=3)
HttpOk == 200          \* response.status_code == 200
OutlierFactor == 2     \* ... > 2 * df['rolling_std']

----------------------------------------------------------------------------
(* Cell values.  Every cell is a record with the same fields, so that any  *)
(* two cells can be compared.                                              *)

Cell(k, n, d) == [kind |-> k, num |-> n, den |-> d]
NaN == Cell("nan", 0, 1)                 \* a missing value (None, NaN, empty CSV field)
Num(n) == Cell("num", n, 1)              \* the number n
Frac(n, d) == Cell("num", n, d)          \* the number n/d, d > 0
Sqrt(n, d) == Cell("sqrt", n, d)         \* the number sqrt(n/d), n >= 0, d > 0
Str(s) == Cell("str", s, 1)              \* a text that is no number: label number s
NumTxt(n) == Cell("numtxt", n, 1)        \* the text of the number n in a CSV field
DateTxt(day) == Cell("datetxt", day, 1)  \* "YYYY-MM-DD hh:mm:ss" text of a day
Timestamp(day) == Cell("ts", day, 1)     \* a pandas Timestamp
EmptyTxt == Cell("emptytxt", 0, 1)       \* an empty CSV field

IsNum(c) == c.kind = "num"
IsNaN(c) == c.kind = "nan"

Range(s) == {s[i] : i \in DOMAIN s}

----------------------------------------------------------------------------
(* DataFrame: the ordered column names and the values of each column.      *)

NoDf == [columns |-> <<>>, col |-> <<>>]

\* pd.DataFrame(dict): the columns in the dict's insertion order
DataFrame(names, data) == [columns |-> names, col |-> [c \in Range(names) |-> data[c]]]

\* len(df)
NRows(df) == IF df.columns = <<>> THEN 0 ELSE Len(df.col[df.columns[1]])

\* df[name] = values: an existing column keeps its place, a new one goes last
SetItem(df, name, values) ==
    [columns |-> IF name \in Range(df.columns) THEN df.columns ELSE Append(df.columns, name),
     col |-> [c \in Range(df.columns) \cup {name} |-> IF c = name THEN values ELSE df.col[c]]]

HasColumn(df, name) == name \in Range(df.columns)

----------------------------------------------------------------------------
(* Element-wise arithmetic of line 61, with NaN propagating.               *)

\* a - b
Sub(a, b) ==
    IF IsNum(a) /\ IsNum(b)
    THEN Frac(a.num * b.den - b.num * a.den, a.den * b.den)
    ELSE NaN

\* np.abs(a)
Abs(a) == IF IsNum(a) THEN Frac(IF a.num < 0 THEN -a.num ELSE a.num, a.den) ELSE NaN

\* k * s for a standard deviation s and an integer k >= 0
Times(k, s) == IF s.kind = "sqrt" THEN Sqrt(k * k * s.num, s.den) ELSE NaN

\* a > s for a number a and a standard deviation s; False when either is NaN
Gt(a, s) ==
    /\ IsNum(a)
    /\ s.kind = "sqrt"
    /\ a.num > 0
    /\ a.num * a.num * s.den > s.num * a.den * a.den

ThresholdOne(s) == Times(1, s)
\* 2 * df['rolling_std']
Threshold(s) == Times(OutlierFactor, s)

----------------------------------------------------------------------------
(* df['temperature'].rolling(window=window): pandas slides the window over *)
(* the column, adding the entering value and removing the leaving one, and *)
(* counts the observations (nobs) that are not NaN.                        *)

\* Rolling._prep_values: the values as float64; a text that is no number cannot be converted
CanFloat(c) == c.kind \in {"num", "nan", "numtxt"}
AsFloat(c) == IF c.kind = "numtxt" THEN Num(c.num) ELSE c
IsNumericColumn(x) == \A i \in DOMAIN x : CanFloat(x[i])

AggZero == [nobs |-> 0, sx |-> 0, sxx |-> 0]

\* add_mean / add_var: a value enters the window
AddObs(agg, c) ==
    IF IsNum(c)
    THEN [nobs |-> agg.nobs + 1, sx |-> agg.sx + c.num, sxx |-> agg.sxx + c.num * c.num]
    ELSE agg

RemoveObsNever(agg, c) == agg
\* remove_mean / remove_var: a value leaves the window
RemoveObs(agg, c) ==
    IF IsNum(c)
    THEN [nobs |-> agg.nobs - 1, sx |-> agg.sx - c.num, sxx |-> agg.sxx - c.num * c.num]
    ELSE agg

RECURSIVE RollAgg(_, _, _)
\* the aggregates of the window ending at position i (1-based) of column x
RollAgg(x, w, i) ==
    IF i = 0 THEN AggZero
    ELSE LET added == AddObs(RollAgg(x, w, i - 1), AsFloat(x[i]))
         IN  IF i > w THEN RemoveObs(added, AsFloat(x[i - w])) ELSE added

MinPeriodsOne(w) == 1
\* min_periods defaults to the window size for a fixed window
MinPeriods(w) == w

\* .rolling(window).mean()
RollingMean(x, w) ==
    [i \in 1..Len(x) |->
        LET a == RollAgg(x, w, i)
        IN  IF a.nobs >= MinPeriods(w) /\ a.nobs > 0 THEN Frac(a.sx, a.nobs) ELSE NaN]

RollingStdPopulation(x, w) ==
    [i \in 1..Len(x) |->
        LET a == RollAgg(x, w, i)
        IN  IF a.nobs >= MinPeriods(w) /\ a.nobs > 0
            THEN Sqrt(a.nobs * a.sxx - a.sx * a.sx, a.nobs * a.nobs)
            ELSE NaN]
\* .rolling(window).std(): ddof = 1, the sample standard deviation
\*   var = (sum x^2 - (sum x)^2 / nobs) / (nobs - 1)
RollingStd(x, w) ==
    [i \in 1..Len(x) |->
        LET a == RollAgg(x, w, i)
        IN  IF a.nobs >= MinPeriods(w) /\ a.nobs > 1
            THEN Sqrt(a.nobs * a.sxx - a.sx * a.sx, a.nobs * (a.nobs - 1))
            ELSE NaN]

\* line 61: np.abs(df['temperature'] - df['rolling_mean']) > 2 * df['rolling_std']
OutlierFlags(df) ==
    [i \in 1..NRows(df) |->
        Gt(Abs(Sub(df.col["temperature"][i], df.col["rolling_mean"][i])),
           Threshold(df.col["rolling_std"][i]))]

Returned(df) == [df |-> df, err |-> "none"]
Raised(df, e) == [df |-> df, err |-> e]

CalculateRollingStatsPartial(df, w) ==
    LET d1 == SetItem(df, "rolling_mean", [i \in 1..NRows(df) |-> NaN])
    IN  IF ~IsNumericColumn(df.col["temperature"])
        THEN Raised(d1, "DataError")
        ELSE LET m1 == SetItem(df, "rolling_mean", RollingMean(df.col["temperature"], w))
                 m2 == SetItem(m1, "rolling_std", RollingStd(m1.col["temperature"], w))
             IN  Returned(SetItem(m2, "is_outlier", OutlierFlags(m2)))
CalculateRollingStatsDrift(df, w) ==
    LET src == IF HasColumn(df, "rolling_mean") THEN "rolling_mean" ELSE "temperature"
        x == [i \in 1..NRows(df) |->
                 LET c == df.col[src][i] IN IF IsNum(c) THEN Num(c.num) ELSE AsFloat(c)]
        m1 == SetItem(df, "rolling_mean", RollingMean(x, w))
        m2 == SetItem(m1, "rolling_std", RollingStd(m1.col["temperature"], w))
    IN  Returned(SetItem(m2, "is_outlier", OutlierFlags(m2)))
\* calculate_rolling_stats(df, window): the frame it leaves and the exception it raises
CalculateRollingStats(df, w) ==
    IF ~IsNumericColumn(df.col["temperature"])
    THEN Raised(df, "DataError")     \* line 59 raises before anything is assigned
    ELSE LET d1 == SetItem(df, "rolling_mean", RollingMean(df.col["temperature"], w))
             d2 == SetItem(d1, "rolling_std", RollingStd(d1.col["temperature"], w))
         IN  IF \E i \in 1..NRows(df) : df.col["temperature"][i].kind = "numtxt"
             THEN Raised(d2, "TypeError")   \* line 61: str - float
             ELSE Returned(SetItem(d2, "is_outlier", OutlierFlags(d2)))

----------------------------------------------------------------------------
(* The CSV file: df.to_csv(..., index=False) and pd.read_csv.              *)

NoFile == [exists |-> FALSE, header |-> <<>>, rows |-> <<>>]

\* the text to_csv writes for a value
ToCsvCell(c) ==
    CASE c.kind = "num" -> NumTxt(c.num)
      [] c.kind = "nan" -> EmptyTxt
      [] OTHER -> c

ToCsv(df) ==
    [exists |-> TRUE,
     header |-> df.columns,
     rows |-> [i \in 1..NRows(df) |->
                 [j \in 1..Len(df.columns) |-> ToCsvCell(df.col[df.columns[j]][i])]]]

\* read_csv's type inference: a column whose fields are all numbers or empty
\* becomes float64, any other column keeps its texts (dtype object)
ParseColumn(fields) ==
    IF \A i \in DOMAIN fields : fields[i].kind \in {"numtxt", "emptytxt"}
    THEN [i \in DOMAIN fields |-> IF fields[i].kind = "numtxt" THEN Num(fields[i].num) ELSE NaN]
    ELSE [i \in DOMAIN fields |-> IF fields[i].kind = "emptytxt" THEN NaN ELSE fields[i]]

ReadCsv(f) ==
    [columns |-> f.header,
     col |-> [c \in Range(f.header) |->
                LET j == CHOOSE k \in 1..Len(f.header) : f.header[k] = c
                IN  ParseColumn([i \in 1..Len(f.rows) |-> f.rows[i][j]])]]

\* pd.to_datetime(column)
CanDatetime(x) == \A i \in DOMAIN x : x[i].kind \in {"datetxt", "nan"}
ToDatetime(x) == [i \in DOMAIN x |-> IF x[i].kind = "datetxt" THEN Timestamp(x[i].num) ELSE NaN]

\* Timestamp.isocalendar().week, for days counted from the Monday of ISO week 1
IsoWeek(t) == IF t.kind = "ts" THEN Num(((t.num - 1) \div 7) + 1) ELSE NaN

----------------------------------------------------------------------------
(* The forecast response and fetch_weather_data.                           *)

BaseColumns == <<"date", "temperature", "humidity", "weather">>

\* forecast entry i with temperature t: dt_txt, main.temp, main.humidity, weather[0].description
Entry(i, t) ==
    [dt_txt |-> DateTxt(StartDay + i - 1),
     temp |-> t,
     humidity |-> Num(50 + i),
     description |-> Str(1 + (i % 2))]

\* how many values of x are no numbers (null, empty or a text that is no number)
BadCount(x) == Cardinality({i \in DOMAIN x : x[i].kind \notin {"num", "numtxt"}})

\* the sequences of m to n values of S, at most MaxBad of them no numbers
ValueSeqs(S, m, n) == {x \in UNION {[1..k -> S] : k \in m..n} : BadCount(x) <= MaxBad}

\* temperatures of a response: numbers and null; a forecast has at least one entry
JsonTemps == {Num(t) : t \in 0..MaxTemp} \cup {NaN}
Responses == {[i \in 1..Len(ts) |-> Entry(i, ts[i])] : ts \in ValueSeqs(JsonTemps, 1, MaxEntries)}

\* lines 18-31: the DataFrame built from data["list"]
ResponseFrame(data) ==
    DataFrame(BaseColumns,
              [date |-> [i \in 1..Len(data) |-> data[i].dt_txt],
               temperature |-> [i \in 1..Len(data) |-> data[i].temp],
               humidity |-> [i \in 1..Len(data) |-> data[i].humidity],
               weather |-> [i \in 1..Len(data) |-> data[i].description]])

\* lines 161-162: read_csv, then the date column parsed
LoadFrame(f) ==
    LET d == ReadCsv(f) IN SetItem(d, "date", ToDatetime(d.col["date"]))

\* a weather_data.csv left by an earlier run
OldFile == ToCsv(ResponseFrame(<<Entry(1, Num(0)), Entry(2, Num(MaxTemp))>>))

----------------------------------------------------------------------------
(* Messages printed.                                                       *)

Msg(m) == [msg |-> m, code |-> 0, rows |-> {}, avg_temp |-> NaN, avg_humidity |-> NaN]
NoOutput == Msg("")

----------------------------------------------------------------------------
(* analyze_data, plot_rolling_stats, visualize_data, weekly_average_trends *)

IsTextColumn(x) == \E i \in DOMAIN x : x[i].kind \in {"str", "numtxt", "datetxt"}

RECURSIVE SumUpTo(_, _)
SumUpTo(x, i) == IF i = 0 THEN 0 ELSE SumUpTo(x, i - 1) + (IF IsNum(x[i]) THEN x[i].num ELSE 0)

\* Series.mean(): NaN skipped, NaN for no values
Mean(x) ==
    LET n == Cardinality({i \in DOMAIN x : IsNum(x[i])})
    IN  IF n = 0 THEN NaN ELSE Frac(SumUpTo(x, Len(x)), n)

\* analyze_data(df): what it prints and raises; df is only read
AnalyzeData(df) ==
    IF IsTextColumn(df.col["temperature"]) \/ IsTextColumn(df.col["humidity"])
    THEN [df |-> df, err |-> "TypeError", out |-> Msg("--- Summary Statistics ---")]
    ELSE [df |-> df, err |-> "none",
          out |-> [Msg("--- Weather Condition Frequency ---") EXCEPT
                      !.avg_temp = Mean(df.col["temperature"]),
                      !.avg_humidity = Mean(df.col["humidity"])]]

\* plot_rolling_stats(df): df is only read
PlotRollingStats(df) ==
    IF ~ (HasColumn(df, "rolling_mean") /\ HasColumn(df, "rolling_std") /\ HasColumn(df, "is_outlier"))
    THEN [df |-> df, err |-> "KeyError", out |-> NoOutput]
    ELSE LET outliers == {i \in 1..NRows(df) : df.col["is_outlier"][i]}
         IN  [df |-> df, err |-> "none",
              out |-> IF outliers # {}
                      THEN [Msg("Unusually High or Low Temperatures Detected:") EXCEPT !.rows = outliers]
                      ELSE Msg("No unusual temperatures detected.")]

VisualizeDataSorted(df) ==
    [df |-> [df EXCEPT !.columns = <<"temperature", "date", "humidity", "weather">>],
     err |-> "none", out |-> NoOutput]
\* visualize_data(df): three charts, df is only read
VisualizeData(df) == [df |-> df, err |-> "none", out |-> NoOutput]

WeeklyAverageTrendsOverDate(df) ==
    {[df |-> SetItem(df, "date", [i \in 1..NRows(df) |-> IsoWeek(df.col["date"][i])]),
      err |-> "none", out |-> NoOutput]}
\* weekly_average_trends(df): line 137 adds the week column; the group means
\* of a column of texts raise TypeError or drop the column, by pandas version
WeeklyAverageTrends(df) ==
    LET d1 == SetItem(df, "week", [i \in 1..NRows(df) |-> IsoWeek(df.col["date"][i])])
    IN  {[df |-> d1, err |-> "none", out |-> NoOutput]} \cup
        (IF IsTextColumn(df.col["temperature"]) \/ IsTextColumn(df.col["humidity"])
         THEN {[df |-> d1, err |-> "TypeError", out |-> NoOutput]}
         ELSE {})

----------------------------------------------------------------------------
(* main(): the fetch, the load and the menu loop.                          *)

StatusCodes == {HttpOk, 401, 404}

FetchWeatherDataNoExit(code, data, f) ==
    IF code = HttpOk
    THEN [file |-> ToCsv(ResponseFrame(data)),
          out |-> Msg("Weather data saved to weather_data.csv"),
          pc |-> "fetched"]
    ELSE [file |-> f,
          out |-> [Msg("Failed to fetch data. Status code:") EXCEPT !.code = code],
          pc |-> "fetched"]
\* fetch_weather_data: on status code, with data["list"] = data and the file f on disk
FetchWeatherData(code, data, f) ==
    IF code = HttpOk
    THEN [file |-> ToCsv(ResponseFrame(data)),
          out |-> Msg("Weather data saved to weather_data.csv"),
          pc |-> "fetched"]
    ELSE [file |-> f,
          out |-> [Msg("Failed to fetch data. Status code:") EXCEPT !.code = code],
          pc |-> "exited"]     \* exit()

\* line 159
Fetch ==
    /\ pc = "start"
    /\ \E code \in StatusCodes, data \in Responses :
          LET r == FetchWeatherData(code, data, file)
          IN  /\ code # HttpOk => data = <<Entry(1, NaN)>>    \* the body is not read on a failure
              /\ status' = code
              /\ file' = r.file
              /\ out' = r.out
              /\ pc' = r.pc
    /\ UNCHANGED <<weather_data, window, choice, err, ncalc>>

\* lines 161-162
LoadData ==
    /\ pc = "fetched"
    /\ IF ~file.exists
       THEN /\ pc' = "crashed"
            /\ err' = "FileNotFoundError"
            /\ UNCHANGED weather_data
       ELSE IF ~CanDatetime(ReadCsv(file).col["date"])
       THEN /\ pc' = "crashed"
            /\ err' = "ValueError"
            /\ weather_data' = ReadCsv(file)
       ELSE /\ pc' = "menu"
            /\ weather_data' = LoadFrame(file)
            /\ UNCHANGED err
    /\ UNCHANGED <<file, window, choice, out, status, ncalc>>

\* input("Enter your choice: ").strip()
RawInputs == {"1", "2", "3", "4", "5", " 5 ", "4 ", "6", "abc", ""}
Strip(raw) ==
    CASE raw = " 5 " -> "5"
      [] raw = "4 " -> "4"
      [] OTHER -> raw
Reads(c) == \E raw \in RawInputs : Strip(raw) = c

\* choice 4, lines 180-181
RollingStatsAndOutliers(df, w) ==
    LET r == CalculateRollingStats(df, w)
    IN  IF r.err # "none"
        THEN [df |-> r.df, err |-> r.err, out |-> NoOutput]
        ELSE PlotRollingStats(r.df)

NextPcBreaksOnInvalid(c, e) ==
    IF e # "none" THEN "crashed"
    ELSE IF c \notin {"1", "2", "3", "4"} THEN "done"
    ELSE "menu"
\* where the loop goes after the branch of choice c ended with exception e
NextPc(c, e) ==
    IF e # "none" THEN "crashed"
    ELSE IF c = "5" THEN "done"
    ELSE "menu"

Min(a, b) == IF a < b THEN a ELSE b

\* one branch of the if/elif chain: r is what the branch's calls leave
Dispatch(c, r, calcs) ==
    /\ choice' = c
    /\ weather_data' = r.df
    /\ err' = r.err
    /\ out' = IF r.out = NoOutput THEN out ELSE r.out
    /\ pc' = NextPc(c, r.err)
    /\ ncalc' = Min(ncalc + calcs, MaxCalls)
    /\ UNCHANGED <<file, window, status>>

ChooseAnalyze ==
    /\ pc = "menu" /\ Reads("1")
    /\ Dispatch("1", AnalyzeData(weather_data), 0)

ChooseVisualize ==
    /\ pc = "menu" /\ Reads("2")
    /\ Dispatch("2", VisualizeData(weather_data), 0)

ChooseWeekly ==
    /\ pc = "menu" /\ Reads("3")
    /\ \E r \in WeeklyAverageTrends(weather_data) : Dispatch("3", r, 0)

ChooseRolling ==
    /\ pc = "menu" /\ Reads("4")
    /\ LET r == RollingStatsAndOutliers(weather_data, window)
       IN  Dispatch("4", r, IF HasColumn(r.df, "is_outlier") THEN 1 ELSE 0)

ChooseExit ==
    /\ pc = "menu" /\ Reads("5")
    /\ Dispatch("5", [df |-> weather_data, err |-> "none",
                      out |-> Msg("Thank you for using the Weather Data Analysis Tool!")], 0)

ChooseInvalid ==
    /\ pc = "menu"
    /\ \E raw \in RawInputs :
          /\ Strip(raw) \notin {"1", "2", "3", "4", "5"}
          /\ Dispatch(Strip(raw), [df |-> weather_data, err |-> "none",
                                   out |-> Msg("Invalid choice. Please try again.")], 0)

Init ==
    /\ pc = "start"
    /\ file \in {NoFile, OldFile}
    /\ weather_data = NoDf
    /\ window = DefaultWindow
    /\ choice = ""
    /\ out = NoOutput
    /\ status = 0
    /\ err = "none"
    /\ ncalc = 0

Next ==
    \/ Fetch
    \/ LoadData
    \/ ChooseAnalyze
    \/ ChooseVisualize
    \/ ChooseWeekly
    \/ ChooseRolling
    \/ ChooseExit
    \/ ChooseInvalid

Spec == Init /\ [][Next]_vars

----------------------------------------------------------------------------
(* calculate_rolling_stats called on any table read_csv can produce, with  *)
(* any window.                                                             *)

\* temperature fields of a CSV file: numbers, an empty field, a text that is no number
CsvTemps == {NumTxt(t) : t \in 0..MaxTemp} \cup {EmptyTxt, Str(0)}

\* longer columns, of the two extreme temperatures
LongLen == MaxLen + 2
LongSeqs == [1..LongLen -> {NumTxt(0), NumTxt(MaxTemp)}]

CsvOf(ts) ==
    [exists |-> TRUE,
     header |-> BaseColumns,
     rows |-> [i \in 1..Len(ts) |->
                 <<DateTxt(StartDay + i - 1), ts[i], NumTxt(50 + i), Str(1 + (i % 2))>>]]

Tables == {LoadFrame(CsvOf(ts)) : ts \in ValueSeqs(CsvTemps, 0, MaxLen) \cup LongSeqs}

\* a call from outside main(): the caller catches what the function raises
CallCalculateRollingStats ==
    /\ pc = "call"
    /\ LET r == CalculateRollingStats(weather_data, window)
       IN  /\ weather_data' = r.df
           /\ err' = r.err
    /\ UNCHANGED <<pc, file, window, choice, out, status, ncalc>>

InitCalls ==
    /\ pc = "call"
    /\ file = NoFile
    /\ weather_data \in Tables
    /\ window \in 1..MaxWindow
    /\ choice = ""
    /\ out = NoOutput
    /\ status = 0
    /\ err = "none"
    /\ ncalc = 0

NextCalls == CallCalculateRollingStats

SpecCalls == InitCalls /\ [][NextCalls]_vars

----------------------------------------------------------------------------
(* Properties of calculate_rolling_stats, checked under SpecCalls.         *)

Temperature(i) == weather_data.col["temperature"][i]
RollingMeanAt(i) == weather_data.col["rolling_mean"][i]
RollingStdAt(i) == weather_data.col["rolling_std"][i]
IsOutlierAt(i) == weather_data.col["is_outlier"][i]
Enriched(df) ==
    HasColumn(df, "rolling_mean") /\ HasColumn(df, "rolling_std") /\ HasColumn(df, "is_outlier")

\* the window ending at record i: records i-w+1 .. i (records are numbered from 1)
Slice(i, w) == (i - w + 1)..i
FullSlice(i, w) == i >= w /\ \A j \in Slice(i, w) : IsNum(Temperature(j))

RECURSIVE SumFirst(_, _)
\* s[1] + ... + s[n]
SumFirst(s, n) == IF n = 0 THEN 0 ELSE SumFirst(s, n - 1) + s[n]

SliceSum(i, w) == SumFirst([k \in 1..w |-> Temperature(i - w + k).num], w)
\* w^2 times the sum of the squared deviations from the mean of the slice
SliceSqDev(i, w) ==
    LET S == SliceSum(i, w)
    IN  SumFirst([k \in 1..w |-> (w * Temperature(i - w + k).num - S) * (w * Temperature(i - w + k).num - S)], w)

\* |temperature - mean| > 2 * std, from the three column values
Exceeds(t, m, s) ==
    LET d == t.num * m.den - m.num
    IN  d * d * s.den > 4 * s.num * m.den * m.den

\* C1: after calculate_rolling_stats, at every record the rolling mean and the
\* rolling std are the mean and the sample standard deviation (denominator
\* window - 1) of the window ending there, defined when the window is full
\* (the std only for a window of 2 or more), and is_outlier is true exactly
\* when both are defined and |temperature - mean| > 2 * std; an undefined std
\* and a std of 0 give false.
C1_OutlierIff ==
    Enriched(weather_data) =>
        \A i \in 1..NRows(weather_data) :
            LET m == RollingMeanAt(i)
                s == RollingStdAt(i)
                w == window
            IN  /\ IsNum(m) <=> FullSlice(i, w)
                /\ IsNum(m) => m.num * w = SliceSum(i, w) * m.den
                /\ s.kind = "sqrt" <=> (FullSlice(i, w) /\ w >= 2)
                /\ s.kind = "sqrt" => s.num * w * w * (w - 1) = SliceSqDev(i, w) * s.den
                /\ IsOutlierAt(i) <=> (IsNum(m) /\ s.kind = "sqrt" /\ Exceeds(Temperature(i), m, s))
                /\ (s.kind # "sqrt" \/ s.num = 0) => ~IsOutlierAt(i)

\* a record flagged as an outlier
C1_Witness ==
    /\ Enriched(weather_data)
    /\ \E i \in 1..NRows(weather_data) :
          IsOutlierAt(i) /\ IsNum(RollingMeanAt(i)) /\ RollingStdAt(i).num > 0

\* C2: a call of calculate_rolling_stats that returns leaves the records
\* 0 .. window-2 (all records when the window is longer than the table) with
\* an undefined rolling mean and std and is_outlier false, and a call on an
\* empty table returns the empty table with the three columns, without error.
C2_LeadingUndefined ==
    [][CallCalculateRollingStats =>
          /\ err' = "none" =>
                /\ Enriched(weather_data')
                /\ \A i \in 1..NRows(weather_data') :
                      i <= window - 1 =>
                          /\ IsNaN(weather_data'.col["rolling_mean"][i])
                          /\ IsNaN(weather_data'.col["rolling_std"][i])
                          /\ ~weather_data'.col["is_outlier"][i]
          /\ NRows(weather_data) = 0 =>
                /\ err' = "none"
                /\ NRows(weather_data') = 0
                /\ \A c \in Range(weather_data'.columns) : weather_data'.col[c] = <<>>
    ]_vars

\* a table with records before and after the first full window
C2_Witness ==
    /\ Enriched(weather_data)
    /\ window >= 2
    /\ NRows(weather_data) > window
    /\ IsNaN(RollingMeanAt(window - 1))
    /\ IsNum(RollingMeanAt(window))

\* the frame with the temperature of record j replaced by v
WithTemperature(df, j, v) ==
    [df EXCEPT !.col["temperature"][j] = v]

\* C3: at every record i >= window-1 (numbered from 0) the rolling mean is the
\* arithmetic mean of the window temperatures ending at i, and replacing the
\* temperature of any record outside that window by any number or by a
\* missing value leaves rolling_mean[i], rolling_std[i] and is_outlier[i] as
\* they are.
C3_Isolation ==
    Enriched(weather_data) =>
        /\ \A i \in 1..NRows(weather_data) :
              FullSlice(i, window) =>
                  /\ IsNum(RollingMeanAt(i))
                  /\ RollingMeanAt(i).num * window = SliceSum(i, window) * RollingMeanAt(i).den
        /\ \A j \in 1..NRows(weather_data) :
              \A v \in {Num(t) : t \in 0..MaxTemp} \cup {NaN} :
                  LET other == CalculateRollingStats(WithTemperature(weather_data, j, v), window).df
                  IN  \A i \in 1..NRows(weather_data) :
                          j \notin Slice(i, window) =>
                              /\ other.col["rolling_mean"][i] = RollingMeanAt(i)
                              /\ other.col["rolling_std"][i] = RollingStdAt(i)
                              /\ other.col["is_outlier"][i] = IsOutlierAt(i)

\* a defined mean at a record that has records before its window and after it
C3_Witness ==
    /\ Enriched(weather_data)
    /\ \E i \in 1..NRows(weather_data) :
          /\ i > window
          /\ i < NRows(weather_data)
          /\ IsNum(RollingMeanAt(i))
          /\ Temperature(i - window) # Temperature(i)

HasMissing(df) == \E i \in 1..NRows(df) : df.col["temperature"][i].kind = "nan"
HasText(df) == \E i \in 1..NRows(df) : df.col["temperature"][i].kind \in {"str", "numtxt"}

\* C8 as stated: with a missing or a non-numeric temperature in the table the
\* call raises DataError and leaves the table as it was.
C8_Original ==
    [][(CallCalculateRollingStats /\ (HasMissing(weather_data) \/ HasText(weather_data))) =>
          (err' = "DataError" /\ weather_data' = weather_data)]_vars

\* C8 amended: with a non-numeric temperature in the table the call raises
\* DataError and leaves the table as it was; with missing temperatures only,
\* the call returns, writes the three columns, and every window that holds a
\* missing temperature has an undefined mean and std and is_outlier false.
C8_Amended ==
    [][CallCalculateRollingStats =>
          /\ HasText(weather_data) => (err' = "DataError" /\ weather_data' = weather_data)
          /\ (HasMissing(weather_data) /\ ~HasText(weather_data)) =>
                /\ err' = "none"
                /\ Enriched(weather_data')
                /\ \A i \in 1..NRows(weather_data) :
                      (\E j \in Slice(i, window) : j >= 1 /\ IsNaN(Temperature(j))) =>
                          /\ IsNaN(weather_data'.col["rolling_mean"][i])
                          /\ IsNaN(weather_data'.col["rolling_std"][i])
                          /\ ~weather_data'.col["is_outlier"][i]
    ]_vars

\* a call that raised DataError on a table with a text among its temperatures
C8_Witness ==
    /\ pc = "call"
    /\ err = "DataError"
    /\ HasText(weather_data)
    /\ NRows(weather_data) >= window
    /\ ~HasColumn(weather_data, "rolling_mean")

----------------------------------------------------------------------------
(* Properties of main(), checked under Spec.                               *)

MenuChoices == {"1", "2", "3", "4", "5"}
DerivedColumns == {"rolling_mean", "rolling_std", "is_outlier", "week"}
PlotMessages ==
    {m.msg : m \in {Msg("Unusually High or Low Temperatures Detected:"),
                    Msg("No unusual temperatures detected.")}}

\* C4: menu choice 4 on a table that already has rolling_mean, rolling_std and
\* is_outlier, whatever was chosen in between, leaves the table as it is: the
\* same values in the three columns, the same columns in the same order, the
\* same records.
C4_Idempotent ==
    [][(pc = "menu" /\ choice' = "4" /\ Enriched(weather_data)) =>
          /\ weather_data'.columns = weather_data.columns
          /\ NRows(weather_data') = NRows(weather_data)
          /\ \A c \in Range(weather_data.columns) : weather_data'.col[c] = weather_data.col[c]
    ]_vars

\* choice 4 served twice, with the week column added by choice 3 before the
\* latest, on a table with a defined rolling mean
C4_Witness ==
    /\ pc = "menu"
    /\ ncalc >= 2
    /\ choice = "4"
    /\ HasColumn(weather_data, "week")
    /\ \E i \in 1..NRows(weather_data) : IsNum(RollingMeanAt(i))

\* C5: a forecast request that does not return 200 prints the status code as
\* a failure, leaves weather_data.csv as it was (absent or the older file),
\* builds no table, and ends the run: nothing happens after it, so the file
\* is not read and the menu is not entered.
C5_FetchFailureFatal ==
    [][/\ (pc = "start" /\ status' # HttpOk) =>
              /\ pc' = "exited"
              /\ out'.msg = "Failed to fetch data. Status code:"
              /\ out'.code = status'
              /\ file' = file
              /\ weather_data' = NoDf
       /\ pc # "exited"
       /\ pc' \in {"fetched", "menu"} => status' = HttpOk
    ]_vars

\* the run ended on a 404 with an older file on disk
C5_Witness ==
    /\ pc = "exited"
    /\ status = 404
    /\ out.code = 404
    /\ file = OldFile
    /\ weather_data = NoDf

\* C6: in the menu loop every choice other than "5" runs its branch and comes
\* back to the prompt; a choice outside 1-5 prints the invalid-choice message
\* and leaves the table as it is; the loop is left exactly on choice "5", and
\* nothing runs after it.
C6_MenuLoop ==
    [][/\ pc = "menu" =>
              /\ pc' = "done" <=> choice' = "5"
              /\ choice' # "5" => pc' = "menu"
              /\ choice' = "1" => out' = AnalyzeData(weather_data).out
              /\ choice' = "2" => weather_data' = weather_data
              /\ choice' = "3" => HasColumn(weather_data', "week")
              /\ choice' = "4" => (Enriched(weather_data') /\ out'.msg \in PlotMessages)
              /\ choice' \notin MenuChoices =>
                    /\ weather_data' = weather_data
                    /\ out' = Msg("Invalid choice. Please try again.")
       /\ pc # "done"
       /\ pc' = "done" => pc = "menu"
    ]_vars

\* the loop left on "5" after an enriched table was built
C6_Witness ==
    /\ pc = "done"
    /\ choice = "5"
    /\ Enriched(weather_data)
    /\ HasColumn(weather_data, "week")

\* C7 as stated: choices 2 and 3 leave the table as it is, and after choice 4
\* the table is the one calculate_rolling_stats returned to plot_rolling_stats.
C7_Original ==
    [][pc = "menu" =>
          /\ choice' \in {"2", "3"} => weather_data' = weather_data
          /\ choice' = "4" => weather_data' = CalculateRollingStats(weather_data, window).df
    ]_vars

\* C7 amended: choice 2 leaves the table as it is and plot_rolling_stats
\* leaves it as calculate_rolling_stats returned it; choice 3 sets the column
\* week to the ISO week of each date, adding it as the last column when it is
\* absent, and leaves the records and every other column as they are.
C7_Amended ==
    [][pc = "menu" =>
          /\ choice' = "2" => weather_data' = weather_data
          /\ choice' = "4" => weather_data' = CalculateRollingStats(weather_data, window).df
          /\ choice' = "3" =>
                /\ weather_data'.columns =
                      IF HasColumn(weather_data, "week") THEN weather_data.columns
                      ELSE Append(weather_data.columns, "week")
                /\ \A c \in Range(weather_data.columns) \ {"week"} :
                      weather_data'.col[c] = weather_data.col[c]
                /\ Len(weather_data'.col["week"]) = NRows(weather_data)
                /\ \A i \in 1..NRows(weather_data) :
                      /\ weather_data'.col["week"][i].kind = "num"
                      /\ weather_data'.col["week"][i].num =
                            ((weather_data.col["date"][i].num - 1) \div 7) + 1
    ]_vars

\* choice 3 on an enriched table whose records fall in two ISO weeks
C7_Witness ==
    /\ pc = "menu"
    /\ choice = "3"
    /\ Enriched(weather_data)
    /\ HasColumn(weather_data, "week")
    /\ \E i, j \in 1..NRows(weather_data) :
          weather_data.col["week"][i] # weather_data.col["week"][j]

\* C9: once the table is loaded no menu choice changes the number or order of
\* the records or the values of date, temperature, humidity and weather; the
\* columns stay in place, no column is removed, and the only columns added
\* are rolling_mean, rolling_std, is_outlier and week.
C9_BaseColumnsKept ==
    [][pc = "menu" =>
          /\ NRows(weather_data') = NRows(weather_data)
          /\ \A c \in Range(BaseColumns) :
                HasColumn(weather_data', c) /\ weather_data'.col[c] = weather_data.col[c]
          /\ \A k \in 1..Len(weather_data.columns) :
                weather_data'.columns[k] = weather_data.columns[k]
          /\ Range(weather_data'.columns) \ Range(weather_data.columns) \subseteq DerivedColumns
    ]_vars

\* all four derived columns added to a table of several different temperatures
C9_Witness ==
    /\ pc = "menu"
    /\ Range(weather_data.columns) = Range(BaseColumns) \cup DerivedColumns
    /\ NRows(weather_data) >= DefaultWindow
    /\ Temperature(1) # Temperature(NRows(weather_data))

\* C10: with the window of 3 that choice 4 uses no record is ever flagged:
\* is_outlier is false in every record and plot_rolling_stats prints that no
\* unusual temperatures were detected.
C10_NoOutlierAtDefaultWindow ==
    /\ window = DefaultWindow
    /\ Enriched(weather_data) => \A i \in 1..NRows(weather_data) : ~IsOutlierAt(i)
    /\ (pc = "menu" /\ choice = "4") => out = Msg("No unusual temperatures detected.")

\* choice 4 on a table whose last window holds different temperatures
C10_Witness ==
    /\ pc = "menu"
    /\ choice = "4"
    /\ \E i \in 1..NRows(weather_data) :
          /\ RollingStdAt(i).kind = "sqrt"
          /\ RollingStdAt(i).num > 0
          /\ Temperature(i) # Temperature(i - 1)

====
